---- MODULE Spec2Model ----
(***************************************************************************)
(* Job lifecycle and progress tracking of flowdownloader-backend.          *)
(*                                                                         *)
(* Two registries live in process memory:                                  *)
(*   jobs + progressTracking   conversion jobs (services/ffmpegService.js) *)
(*   downloadJobs              download jobs   (the download router)       *)
(* Node.js runs every handler to completion, so one action of this model   *)
(* is one handler (a request handler up to its first await, an event       *)
(* callback, a timer callback) together with the microtasks it triggers.   *)
(* Every state of the model is therefore a state a poller can observe.     *)
(*                                                                         *)
(* JavaScript objects are records; a property that is absent in the        *)
(* object is absent from the record's DOMAIN.  Maps are functions whose    *)
(* DOMAIN is the set of keys; job ids (uuidv4) are fresh naturals taken    *)
(* from nextId, so Map insertion order is ascending id.                    *)
(***************************************************************************)
EXTENDS Integers, Sequences, FiniteSets, TLC

\* ----------------------------------------------------------------- bounds
\* Number of job ids the model hands out.
MaxJobs == 2
\* Number of times the clock advances.
MaxClockSteps == 2
\* Date.now() when the process starts (milliseconds, positive).
StartNow == 1000

\* ------------------------------------------------------ program constants
maxAge == 24 * 60 * 60 * 1000
estimatorCap == 90
estimatorRate == 2
msPerSecond == 1000

\* Clock advances the model takes: 1.5 s and exactly the retention age.
Delays == {1500, maxAge}

\* progress.percent as fluent-ffmpeg reports it: <<t>> is t tenths of a
\* percent, << >> an event without a percent (duration unknown).
ProgressReports == {<< >>, <<996>>, <<1204>>}

\* err.message of the transcoder and of the fetcher.
ToolMessages == {"ffmpeg exited with code 1"}
FetchMessages == {"ERROR: Unsupported URL"}

VARIABLES
    now,              \* Date.now()
    clockSteps,       \* clock advances taken so far
    nextId,           \* next fresh uuid
    alive,            \* FALSE once an uncaught exception ended the process
    jobs,             \* ffmpegService.js: const jobs = new Map()
    progressTracking, \* ffmpegService.js: const progressTracking = new Map()
    downloadJobs,     \* download router: const downloadJobs = new Map()
    disk,             \* files in uploads/, output/ and downloads/
    command,          \* per conversion job: state of its ffmpeg command
    fetch,            \* per download job: state of its yt-dlp invocation
    progressTimer,    \* download jobs whose setInterval timer is scheduled
    response,         \* per job id: the answer to its creation request
    rateLimitStore,   \* validation.js: global.rateLimitStore
    limiterStore,     \* server.js: the store of the express-rate-limit limiter
    requests,         \* per client IP: when its POST requests were served or refused
    body,             \* req.body of the conversion requests of a client
    invocation,       \* per conversion job: the options its ffmpeg command was given
    listing,          \* fs.readdirSync(outputDir) when a fetch resolves
    picked,           \* what downloadVideo made of that listing
    permRequest,      \* a request as it reaches checkQualityPermission
    permOutcome,      \* what checkQualityPermission did with it
    licenses,         \* Firestore collection 'licenses'
    payments,         \* Firestore collection 'payments'
    userDoc,          \* the user's document in collection 'users'
    confirm           \* per confirm-payment request: how far its handler has got

\* the state of request admission
rateVars == <<rateLimitStore, limiterStore, requests>>

\* a request body and what the transcoder was asked to do for it
presetVars == <<body, invocation>>

\* a directory listing and the file the lookup took from it
lookupVars == <<listing, picked>>

\* a request at the quality check and its outcome
permVars == <<permRequest, permOutcome>>

\* the payment collections and the confirmations under way
payVars == <<licenses, payments, userDoc, confirm>>

\* what the job machinery of Spec leaves as it starts
aside == <<rateVars, presetVars, lookupVars, permVars, payVars>>

\* the state of the job machinery apart from the clock
jobVars == <<nextId, alive, jobs, progressTracking, downloadJobs, disk,
             command, fetch, progressTimer, response>>

vars == <<now, clockSteps, nextId, alive, jobs, progressTracking,
          downloadJobs, disk, command, fetch, progressTimer, response,
          rateLimitStore, limiterStore, requests, body, invocation,
          listing, picked, permRequest, permOutcome,
          licenses, payments, userDoc, confirm>>

\* ------------------------------------------------------------ JS helpers
EmptyMap == [x \in {} |-> 0]

\* Map.prototype.set
MapSet(m, k, v) == [x \in DOMAIN m \cup {k} |-> IF x = k THEN v ELSE m[x]]

\* Map.prototype.delete
MapDelete(m, k) == [x \in DOMAIN m \ {k} |-> m[x]]

\* Map.prototype.get; undefined spreads as the empty object
MapGet(m, k) == IF k \in DOMAIN m THEN m[k] ELSE EmptyMap

\* { ...a, ...b }
Spread(a, b) ==
    [k \in DOMAIN a \cup DOMAIN b |-> IF k \in DOMAIN b THEN b[k] ELSE a[k]]

\* Math.round(x) for x given in tenths: rounds half towards +infinity.
MathRound(tenths) == (tenths + 5) \div 10

\* Math.round(progress.percent || 0)
ReportedPercent(report) == IF report = << >> THEN 0 ELSE MathRound(report[1])

\* JS truthiness of job.endTime (absent or 0 is falsy)
HasEndTime(job) == "endTime" \in DOMAIN job /\ job.endTime # 0

\* -------------------------------------------------------------- files
UploadFile(id) == [dir |-> "uploads", job |-> id, ext |-> "src"]
OutputFile(id) == [dir |-> "output", job |-> id, ext |-> "fmt"]
DownloadExts == {"mp4", "part"}
DownloadFile(id, ext) == [dir |-> "downloads", job |-> id, ext |-> ext]

\* ------------------------------------------------------ conversion jobs
\* convertVideo / extractAudio: the record written before the command is built
ConvInitialJob(id, type) ==
    [status |-> "processing", inputFile |-> UploadFile(id),
     outputFile |-> OutputFile(id), startTime |-> now, type |-> type]

\* POST /video, POST /audio up to command.run().  throws: building or
\* starting the command raised synchronously inside the Promise executor,
\* which rejects the promise; the route answers 500.
StartConversionWrites(type, throws) ==
    /\ alive
    /\ nextId <= MaxJobs
    /\ jobs' = MapSet(jobs, nextId, ConvInitialJob(nextId, type))
    /\ progressTracking' = MapSet(progressTracking, nextId, [percent |-> 0])
    /\ command' = MapSet(command, nextId, IF throws THEN "threw" ELSE "running")
    /\ response' = MapSet(response, nextId, IF throws THEN "error" ELSE "pending")
    /\ disk' = disk \cup {UploadFile(nextId)}
    /\ nextId' = nextId + 1
    /\ UNCHANGED <<rateVars, lookupVars, permVars, payVars, now, clockSteps,
                   alive, downloadJobs, fetch, progressTimer>>

StartConversion(type, throws) ==
    StartConversionWrites(type, throws) /\ UNCHANGED presetVars

PostVideo == \E throws \in BOOLEAN : StartConversion("video_conversion", throws)

PostAudio == \E throws \in BOOLEAN : StartConversion("audio_extraction", throws)

\* ffmpeg writes (part of) the output file while it runs
TranscoderWrites(id) ==
    /\ alive
    /\ id \in DOMAIN command /\ command[id] = "running"
    /\ OutputFile(id) \notin disk
    /\ disk' = disk \cup {OutputFile(id)}
    /\ UNCHANGED <<aside, now, clockSteps, nextId, alive, jobs, progressTracking,
                   downloadJobs, command, fetch, progressTimer, response>>

\* command.on('progress')
OnProgress(tracking, id, report) ==
    MapSet(tracking, id, [percent |-> ReportedPercent(report)])

\* Variant of ConvProgress in which the command keeps reporting progress
\* after it ended or errored.
ConvProgressLate(id, report) ==
    /\ alive
    /\ id \in DOMAIN command
    /\ progressTracking' = OnProgress(progressTracking, id, report)
    /\ UNCHANGED <<aside, now, clockSteps, nextId, alive, jobs, downloadJobs, disk,
                   command, fetch, progressTimer, response>>

\* fluent-ffmpeg emits progress while the command runs, and nothing after
\* its end or error event
ConvProgress(id, report) ==
    /\ alive
    /\ id \in DOMAIN command /\ command[id] = "running"
    /\ progressTracking' = OnProgress(progressTracking, id, report)
    /\ UNCHANGED <<aside, now, clockSteps, nextId, alive, jobs, downloadJobs, disk,
                   command, fetch, progressTimer, response>>

\* Variant of OnEndJob that forgets endTime: Date.now().
OnEndJobNoEndTime(job) == Spread(job, [status |-> "completed"])

\* command.on('end'): the two writes, then resolve(); the route's await
\* continues in a microtask and answers 200 with the job id.
OnEndJob(job) == Spread(job, [status |-> "completed", endTime |-> now])

OnEndProgress(snapshot) == Spread(snapshot, [percent |-> 100])

ConvEnd(id) ==
    /\ alive
    /\ id \in DOMAIN command /\ command[id] = "running"
    /\ jobs' = MapSet(jobs, id, OnEndJob(MapGet(jobs, id)))
    /\ progressTracking' =
           MapSet(progressTracking, id, OnEndProgress(MapGet(progressTracking, id)))
    /\ command' = MapSet(command, id, "ended")
    /\ response' = MapSet(response, id, "ok")
    /\ UNCHANGED <<aside, now, clockSteps, nextId, alive, downloadJobs, disk, fetch,
                   progressTimer>>

\* Variant of OnErrorJob that forgets error: err.message.
OnErrorJobNoMessage(job, message) ==
    Spread(job, [status |-> "failed", endTime |-> now])

\* command.on('error'): one write, then reject(); the route answers 500.
OnErrorJob(job, message) ==
    Spread(job, [status |-> "failed", error |-> message, endTime |-> now])

ConvError(id, message) ==
    /\ alive
    /\ id \in DOMAIN command /\ command[id] = "running"
    /\ jobs' = MapSet(jobs, id, OnErrorJob(MapGet(jobs, id), message))
    /\ command' = MapSet(command, id, "errored")
    /\ response' = MapSet(response, id, "error")
    /\ UNCHANGED <<aside, now, clockSteps, nextId, alive, progressTracking,
                   downloadJobs, disk, fetch, progressTimer>>

\* -------------------------------------------------------- download jobs
\* POST / and POST /batch: the record written before downloadVideo is called
StartingJob(url, format, quality) ==
    [status |-> "starting", url |-> url, format |-> format,
     quality |-> quality, startTime |-> now, progress |-> 0]

\* downloadVideo up to its first await: the status write; the options,
\* setInterval and the yt-dlp call change no registry state.
DownloadVideoStart(dj, id) ==
    MapSet(dj, id, Spread(MapGet(dj, id), [status |-> "downloading"]))

\* The request body after validateDownloadRequest.
Urls == {"https://youtu.be/x"}
Formats == {"mp4"}
Qualities == {"720p"}

\* POST /: set 'starting', run downloadVideo to its await, answer 200.
\* (validateRateLimit only counts requests; fewer than its limit are made.)
PostDownload(url, format, quality) ==
    /\ alive
    /\ nextId <= MaxJobs
    /\ downloadJobs' =
           DownloadVideoStart(
               MapSet(downloadJobs, nextId, StartingJob(url, format, quality)),
               nextId)
    /\ fetch' = MapSet(fetch, nextId, "running")
    /\ progressTimer' = progressTimer \cup {nextId}
    /\ response' = MapSet(response, nextId, "ok")
    /\ nextId' = nextId + 1
    /\ UNCHANGED <<aside, now, clockSteps, alive, jobs, progressTracking, disk, command>>

\* POST /batch: one batchId, then per URL a fresh id, the 'starting' record
\* with the batchId and downloadVideo to its await.
maxBatchUrls == 10

BatchId(n) == <<"batch", n>>

\* Variant of BatchJobs that draws a batch id per URL.
RECURSIVE BatchJobsOwnBatchId(_, _, _, _, _, _)
BatchJobsOwnBatchId(dj, first, count, batchId, format, quality) ==
    IF count = 0 THEN dj
    ELSE BatchJobsOwnBatchId(
             DownloadVideoStart(
                 MapSet(dj, first,
                        Spread(StartingJob(CHOOSE u \in Urls : TRUE, format, quality),
                               [batchId |-> BatchId(first)])),
                 first),
             first + 1, count - 1, batchId, format, quality)

RECURSIVE BatchJobs(_, _, _, _, _, _)
BatchJobs(dj, first, count, batchId, format, quality) ==
    IF count = 0 THEN dj
    ELSE BatchJobs(
             DownloadVideoStart(
                 MapSet(dj, first,
                        Spread(StartingJob(CHOOSE u \in Urls : TRUE, format, quality),
                               [batchId |-> batchId])),
                 first),
             first + 1, count - 1, batchId, format, quality)

\* the answer of POST /batch to n URLs: 400, or batchId and jobIds
BatchResponse(n) ==
    IF n = 0 THEN [code |-> 400, error |-> "URLs array is required"]
    ELSE IF n > maxBatchUrls
    THEN [code |-> 400, error |-> "Maximum 10 URLs allowed per batch"]
    ELSE [code |-> 200, success |-> TRUE, batchId |-> BatchId(nextId),
          jobIds |-> [i \in 1..n |-> nextId + i - 1]]

PostBatch(n, format, quality) ==
    /\ alive
    /\ IF n = 0 \/ n > maxBatchUrls
       THEN \* 400: 'URLs array is required' / 'Maximum 10 URLs allowed'
            UNCHANGED <<downloadJobs, fetch, progressTimer, response, nextId>>
       ELSE /\ nextId + n - 1 <= MaxJobs
            /\ downloadJobs' =
                   BatchJobs(downloadJobs, nextId, n, BatchId(nextId), format, quality)
            /\ fetch' = [x \in DOMAIN fetch \cup (nextId..(nextId + n - 1)) |->
                            IF x \in DOMAIN fetch THEN fetch[x] ELSE "running"]
            /\ progressTimer' = progressTimer \cup (nextId..(nextId + n - 1))
            /\ response' = [x \in DOMAIN response \cup (nextId..(nextId + n - 1)) |->
                               IF x \in DOMAIN response THEN response[x] ELSE "ok"]
            /\ nextId' = nextId + n
    /\ UNCHANGED <<aside, now, clockSteps, alive, jobs, progressTracking, disk, command>>

\* yt-dlp writes a file named {jobId}-{timestamp}.{ext} while it runs
FetcherWrites(id, ext) ==
    /\ alive
    /\ id \in DOMAIN fetch /\ fetch[id] = "running"
    /\ DownloadFile(id, ext) \notin disk
    /\ disk' = disk \cup {DownloadFile(id, ext)}
    /\ UNCHANGED <<aside, now, clockSteps, nextId, alive, jobs, progressTracking,
                   downloadJobs, command, fetch, progressTimer, response>>

\* Variant of EstimatedProgress without Math.min(90, ...).
EstimatedProgressUncapped(elapsed) == (elapsed \div msPerSecond) * estimatorRate

\* Math.min(90, Math.floor(elapsed / 1000) * 2)
EstimatedProgress(elapsed) ==
    LET raw == (elapsed \div msPerSecond) * estimatorRate
    IN  IF raw < estimatorCap THEN raw ELSE estimatorCap

\* Variant of OnTick without the status guard, writing back the status the
\* job had when the timer was started.
OnTickStale(dj, id) ==
    IF id \in DOMAIN dj
    THEN MapSet(dj, id,
                Spread(dj[id],
                       [status |-> "downloading",
                        progress |-> EstimatedProgress(now - dj[id].startTime)]))
    ELSE dj

\* Variant of OnTick without the status guard.
OnTickUnguarded(dj, id) ==
    IF id \in DOMAIN dj
    THEN MapSet(dj, id,
                Spread(dj[id],
                       [progress |-> EstimatedProgress(now - dj[id].startTime)]))
    ELSE dj

\* the setInterval callback of downloadVideo
OnTick(dj, id) ==
    IF id \in DOMAIN dj /\ dj[id].status = "downloading"
    THEN MapSet(dj, id,
                Spread(dj[id],
                       [progress |-> EstimatedProgress(now - dj[id].startTime)]))
    ELSE dj

ProgressTimerTick(id) ==
    /\ alive
    /\ id \in progressTimer
    /\ downloadJobs' = OnTick(downloadJobs, id)
    /\ UNCHANGED <<aside, now, clockSteps, nextId, alive, jobs, progressTracking, disk,
                   command, fetch, progressTimer, response>>

\* Variant of OnDownloadCatch that fails the whole batch of the job.
OnDownloadCatchBatch(dj, id, message) ==
    [x \in DOMAIN dj \cup {id} |->
        IF x = id \/ ("batchId" \in DOMAIN MapGet(dj, id)
                          /\ "batchId" \in DOMAIN dj[x]
                          /\ dj[x].batchId = dj[id].batchId)
        THEN Spread(MapGet(dj, x),
                    [status |-> "failed", error |-> message, endTime |-> now])
        ELSE dj[x]]

\* the .catch attached to downloadVideo(...) in both routes
OnDownloadCatch(dj, id, message) ==
    MapSet(dj, id,
           Spread(MapGet(dj, id),
                  [status |-> "failed", error |-> message, endTime |-> now]))

\* Variant of DownloadedFiles without file.includes(jobId).
DownloadedFilesAny(id) == {f \in disk : f.dir = "downloads"}

\* fs.readdirSync(outputDir) filtered by file.includes(jobId)
DownloadedFiles(id) == {f \in disk : f.dir = "downloads" /\ f.job = id}

\* fs.statSync(outputFile).size (an opaque positive number)
StatSize(f) == Len(f.ext)

\* the completed write of downloadVideo
OnDownloaded(dj, id, outputFile) ==
    MapSet(dj, id,
           Spread(MapGet(dj, id),
                  [status |-> "completed", outputFile |-> outputFile,
                   fileSize |-> StatSize(outputFile), endTime |-> now,
                   progress |-> 100]))

\* execPromise resolved: clearInterval, look for the file, finish the job.
\* downloadedFiles[0] is the first match in directory order, which the
\* operating system decides: any of the matches.
FetchResolves(id) ==
    /\ alive
    /\ id \in DOMAIN fetch /\ fetch[id] = "running"
    /\ fetch' = MapSet(fetch, id, "resolved")
    /\ progressTimer' = progressTimer \ {id}
    /\ \/ /\ DownloadedFiles(id) = {}
          /\ downloadJobs' = OnDownloadCatch(downloadJobs, id, "Downloaded file not found")
       \/ \E f \in DownloadedFiles(id) :
              downloadJobs' = OnDownloaded(downloadJobs, id, f)
    /\ UNCHANGED <<aside, now, clockSteps, nextId, alive, jobs, progressTracking, disk,
                   command, response>>

\* execPromise rejected: rethrown as 'yt-dlp failed: ...' before
\* clearInterval is reached, so the timer stays scheduled.
FetchRejects(id, message) ==
    /\ alive
    /\ id \in DOMAIN fetch /\ fetch[id] = "running"
    /\ fetch' = MapSet(fetch, id, "rejected")
    /\ downloadJobs' = OnDownloadCatch(downloadJobs, id, "yt-dlp failed: " \o message)
    /\ UNCHANGED <<aside, now, clockSteps, nextId, alive, jobs, progressTracking, disk,
                   command, progressTimer, response>>

\* ---------------------------------------------------------- status polls
\* the fields of an object that are not undefined
Defined(rec, keys) == [k \in keys \cap DOMAIN rec |-> rec[k]]

\* FFmpegService.getProgress; NotFound stands for null
NotFound == [found |-> FALSE]

getProgress(jobId) ==
    IF jobId \notin DOMAIN jobs THEN NotFound
    ELSE Spread([jobId |-> jobId,
                 status |-> jobs[jobId].status,
                 progress |-> IF jobId \in DOMAIN progressTracking
                              THEN progressTracking[jobId]
                              ELSE [percent |-> 0]],
                Defined(jobs[jobId], {"startTime", "endTime", "error"}))

\* GET /api/convert/progress/:jobId
ConvProgressRoute(jobId) ==
    IF getProgress(jobId) = NotFound
    THEN [code |-> 404, success |-> FALSE, error |-> "Job not found"]
    ELSE [code |-> 200, success |-> TRUE, progress |-> getProgress(jobId)]

\* Variant of DownloadProgressRoute that reports the time elapsed at the
\* moment of the query.
DownloadProgressRouteElapsed(jobId) ==
    IF jobId \notin DOMAIN downloadJobs
    THEN [code |-> 404, success |-> FALSE, error |-> "Job not found"]
    ELSE [code |-> 200, success |-> TRUE,
          progress |-> downloadJobs[jobId].progress,
          status |-> downloadJobs[jobId].status,
          elapsed |-> now - downloadJobs[jobId].startTime]

\* GET /api/download/progress/:jobId
DownloadProgressRoute(jobId) ==
    IF jobId \notin DOMAIN downloadJobs
    THEN [code |-> 404, success |-> FALSE, error |-> "Job not found"]
    ELSE LET job == downloadJobs[jobId]
             response0 == Spread([code |-> 200, success |-> TRUE,
                                  progress |-> job.progress,
                                  status |-> job.status],
                                 Defined(job, {"error"}))
         IN  IF job.status = "completed" /\ "outputFile" \in DOMAIN job
             THEN Spread(response0,
                         [downloadUrl |-> <<"/api/download/file/", jobId>>,
                          filename |-> job.outputFile,
                          fileSize |-> job.fileSize])
             ELSE response0

\* Both handlers only read the registries.
PollConversion(jobId) ==
    /\ alive
    /\ ConvProgressRoute(jobId).code \in {200, 404}
    /\ UNCHANGED vars

PollDownload(jobId) ==
    /\ alive
    /\ DownloadProgressRoute(jobId).code \in {200, 404}
    /\ UNCHANGED vars

\* ------------------------------------------------------ output retrieval
\* Variant of getOutputFile that derives the path from the id without
\* looking the job up.
getOutputFileUnchecked(jobId) == [found |-> TRUE, path |-> OutputFile(jobId)]

\* FFmpegService.getOutputFile: job ? job.outputFile : null
getOutputFile(jobId) ==
    IF jobId \in DOMAIN jobs
    THEN [found |-> TRUE, path |-> jobs[jobId].outputFile]
    ELSE NotFound

\* GET /api/convert/download/:jobId: 404 unless getOutputFile gave a path
\* and fs.existsSync(path); otherwise res.sendFile(path)
ConvDownloadRoute(jobId) ==
    IF getOutputFile(jobId) = NotFound \/ getOutputFile(jobId).path \notin disk
    THEN [code |-> 404, success |-> FALSE, error |-> "File not found"]
    ELSE [code |-> 200, sendFile |-> getOutputFile(jobId).path]

\* GET /api/download/file/:jobId
DownloadFileRoute(jobId) ==
    IF jobId \notin DOMAIN downloadJobs
           \/ downloadJobs[jobId].status # "completed"
    THEN [code |-> 404, success |-> FALSE,
          error |-> "File not ready or job not found"]
    ELSE IF "outputFile" \notin DOMAIN downloadJobs[jobId]
               \/ downloadJobs[jobId].outputFile \notin disk
    THEN [code |-> 404, success |-> FALSE, error |-> "File not found on disk"]
    ELSE [code |-> 200, sendFile |-> downloadJobs[jobId].outputFile]

\* Both handlers only read the registries and the disk.
ServeConversion(jobId) ==
    /\ alive
    /\ ConvDownloadRoute(jobId).code \in {200, 404}
    /\ UNCHANGED vars

ServeDownload(jobId) ==
    /\ alive
    /\ DownloadFileRoute(jobId).code \in {200, 404}
    /\ UNCHANGED vars

\* -------------------------------------------------------------- sweeps
\* Variant of Expired with >= for >.
ExpiredAtAge(job) == HasEndTime(job) /\ (now - job.endTime) >= maxAge

\* job.endTime && (now - job.endTime) > maxAge
Expired(job) == HasEndTime(job) /\ (now - job.endTime) > maxAge

\* fs.unlinkSync either removes the file or throws (EPERM, EBUSY, ...); the
\* files in failing are those it throws for.  An exception leaves the
\* setInterval callback uncaught, which ends the process.

\* Variant of CleanupJob that forgets progressTracking.delete(jobId).
CleanupJobKeepsTracking(st, id, failing) ==
    [jobs |-> MapDelete(st.jobs, id), tracking |-> st.tracking,
     disk |-> (st.disk \ {st.jobs[id].outputFile}) \ {st.jobs[id].inputFile},
     threw |-> FALSE]

\* FFmpegService.cleanup, the body of its loop for one expired job; st is
\* [jobs, tracking, disk, threw].
CleanupJob(st, id, failing) ==
    LET job == st.jobs[id]
        outThere == job.outputFile \in st.disk
        disk1 == st.disk \ {job.outputFile}
        inThere == job.inputFile.dir = "uploads" /\ job.inputFile \in disk1
        disk2 == disk1 \ {job.inputFile}
    IN  IF outThere /\ job.outputFile \in failing
        THEN [st EXCEPT !.threw = TRUE]
        ELSE IF inThere /\ job.inputFile \in failing
        THEN [st EXCEPT !.disk = disk1, !.threw = TRUE]
        ELSE [jobs |-> MapDelete(st.jobs, id),
              tracking |-> MapDelete(st.tracking, id),
              disk |-> disk2, threw |-> FALSE]

\* for (const [jobId, job] of jobs.entries()), from id on, in insertion order
RECURSIVE CleanupLoop(_, _, _)
CleanupLoop(id, st, failing) ==
    IF id >= nextId \/ st.threw THEN st
    ELSE IF id \in DOMAIN st.jobs /\ Expired(st.jobs[id])
    THEN CleanupLoop(id + 1, CleanupJob(st, id, failing), failing)
    ELSE CleanupLoop(id + 1, st, failing)

\* the files one sweep may fail to unlink: none, or one of those on disk
Failings == {{}} \cup {{f} : f \in disk}

\* setInterval(() => ffmpegService.cleanup(), hourly)
Cleanup(failing) ==
    LET st == CleanupLoop(1, [jobs |-> jobs, tracking |-> progressTracking,
                              disk |-> disk, threw |-> FALSE], failing)
    IN  /\ alive
        /\ jobs' = st.jobs
        /\ progressTracking' = st.tracking
        /\ disk' = st.disk
        /\ alive' = ~st.threw
        /\ UNCHANGED <<aside, now, clockSteps, nextId, downloadJobs, command, fetch,
                       progressTimer, response>>

\* the download sweeper, the body of its loop for one expired job; st is
\* [jobs, disk, threw].
SweepJob(st, id, failing) ==
    LET job == st.jobs[id]
        outThere == "outputFile" \in DOMAIN job /\ job.outputFile \in st.disk
    IN  IF outThere /\ job.outputFile \in failing
        THEN [st EXCEPT !.threw = TRUE]
        ELSE [jobs |-> MapDelete(st.jobs, id),
              disk |-> IF outThere THEN st.disk \ {job.outputFile} ELSE st.disk,
              threw |-> FALSE]

RECURSIVE SweepLoop(_, _, _)
SweepLoop(id, st, failing) ==
    IF id >= nextId \/ st.threw THEN st
    ELSE IF id \in DOMAIN st.jobs /\ Expired(st.jobs[id])
    THEN SweepLoop(id + 1, SweepJob(st, id, failing), failing)
    ELSE SweepLoop(id + 1, st, failing)

\* setInterval(() => { ... }, hourly) at the end of the download router
DownloadSweep(failing) ==
    LET st == SweepLoop(1, [jobs |-> downloadJobs, disk |-> disk,
                            threw |-> FALSE], failing)
    IN  /\ alive
        /\ downloadJobs' = st.jobs
        /\ disk' = st.disk
        /\ alive' = ~st.threw
        /\ UNCHANGED <<aside, now, clockSteps, nextId, jobs, progressTracking, command,
                       fetch, progressTimer, response>>

\* ---------------------------------------------------------------- clock
AdvanceClock(d) ==
    /\ alive
    /\ clockSteps < MaxClockSteps
    /\ now' = now + d
    /\ clockSteps' = clockSteps + 1
    /\ UNCHANGED <<aside, nextId, alive, jobs, progressTracking, downloadJobs, disk,
                   command, fetch, progressTimer, response>>

\* ------------------------------------------------------------------ spec
\* urls.length of the batch requests made
BatchSizes == {0, 1, 2, maxBatchUrls + 1}

Started ==
    /\ now = StartNow
    /\ clockSteps = 0
    /\ nextId = 1
    /\ alive = TRUE
    /\ jobs = EmptyMap
    /\ progressTracking = EmptyMap
    /\ downloadJobs = EmptyMap
    /\ disk = {}
    /\ command = EmptyMap
    /\ fetch = EmptyMap
    /\ progressTimer = {}
    /\ response = EmptyMap
    /\ rateLimitStore = EmptyMap
    /\ limiterStore = EmptyMap
    /\ requests = EmptyMap
    /\ invocation = EmptyMap
    /\ picked = EmptyMap
    /\ permOutcome = "none"
    /\ licenses = << >>
    /\ payments = << >>
    /\ userDoc = EmptyMap
    /\ confirm = EmptyMap

\* Spec looks at the jobs and not at what was asked of the transcoder: its
\* requests carry an empty body, and the inputs of the other
\* specifications are empty too.
Init ==
    /\ Started
    /\ body = EmptyMap
    /\ listing = << >>
    /\ permRequest = EmptyMap

Next ==
    \/ PostVideo
    \/ PostAudio
    \/ \E id \in 1..MaxJobs : TranscoderWrites(id)
    \/ \E id \in 1..MaxJobs, report \in ProgressReports : ConvProgress(id, report)
    \/ \E id \in 1..MaxJobs : ConvEnd(id)
    \/ \E id \in 1..MaxJobs, message \in ToolMessages : ConvError(id, message)
    \/ \E u \in Urls, f \in Formats, q \in Qualities : PostDownload(u, f, q)
    \/ \E n \in BatchSizes, f \in Formats, q \in Qualities : PostBatch(n, f, q)
    \/ \E id \in 1..MaxJobs, ext \in DownloadExts : FetcherWrites(id, ext)
    \/ \E id \in 1..MaxJobs : ProgressTimerTick(id)
    \/ \E id \in 1..MaxJobs : FetchResolves(id)
    \/ \E id \in 1..MaxJobs, message \in FetchMessages : FetchRejects(id, message)
    \/ \E id \in 1..MaxJobs : PollConversion(id)
    \/ \E id \in 1..MaxJobs : PollDownload(id)
    \/ \E id \in 1..MaxJobs : ServeConversion(id)
    \/ \E id \in 1..MaxJobs : ServeDownload(id)
    \/ \E failing \in Failings : Cleanup(failing)
    \/ \E failing \in Failings : DownloadSweep(failing)
    \/ \E d \in Delays : AdvanceClock(d)

Spec == Init /\ [][Next]_vars

\* ------------------------------------------------------- rate limiting
\* Request admission, kept apart from the job machinery: Spec makes fewer
\* requests than any limit and leaves this state as it starts; RateSpec
\* makes up to MaxRequests POST requests per client and leaves the jobs
\* aside, since no admission decision reads them.
windowMs == 15 * 60 * 1000
maxRequests == 10
limiterMax == 100

\* POST requests a client makes
MaxRequests == 12

ClientIPs == {"203.0.113.7"}

\* Clock advances between requests: a second, and a whole window.
RateDelays == {1000, windowMs}

\* express-rate-limit: count the hit in the client's current window, which
\* starts with its first hit and lasts windowMs
LimiterHit(store, ip) ==
    LET cur == IF ip \in DOMAIN store /\ now < store[ip].resetTime
               THEN store[ip]
               ELSE [hits |-> 0, resetTime |-> now + windowMs]
    IN  MapSet(store, ip, [cur EXCEPT !.hits = @ + 1])

\* the limiter answers 429 once the hits exceed max
LimiterPasses(store, ip) == LimiterHit(store, ip)[ip].hits <= limiterMax

\* clientData.requests.filter(timestamp => now - timestamp < windowMs)
RecentRequests(store, ip) ==
    IF ip \in DOMAIN store
    THEN SelectSeq(store[ip], LAMBDA timestamp : now - timestamp < windowMs)
    ELSE << >>

\* Variant of RateLimitPasses that refuses only above maxRequests.
RateLimitPassesInclusive(store, ip) ==
    Len(RecentRequests(store, ip)) <= maxRequests

\* validateRateLimit calls next()
RateLimitPasses(store, ip) == Len(RecentRequests(store, ip)) < maxRequests

\* validateRateLimit: the store afterwards.  A refused client's stored
\* object has had its requests replaced by the filtered list.
validateRateLimit(store, ip) ==
    IF RateLimitPasses(store, ip)
    THEN MapSet(store, ip, Append(RecentRequests(store, ip), now))
    ELSE MapSet(store, ip, RecentRequests(store, ip))

\* what has become of the requests of a client
RequestLog(ip) ==
    IF ip \in DOMAIN requests THEN requests[ip]
    ELSE [convert |-> << >>, download |-> << >>, refused |-> << >>]

RequestsMade(ip) ==
    Len(RequestLog(ip).convert) + Len(RequestLog(ip).download)
        + Len(RequestLog(ip).refused)

Served(ip, route) == [RequestLog(ip) EXCEPT ![route] = Append(@, now)]

\* POST /api/convert/video, POST /api/convert/audio: the limiter of
\* server.js, then upload and validateConversionRequest, then the handler
ConvertRequest(ip) ==
    /\ alive
    /\ RequestsMade(ip) < MaxRequests
    /\ limiterStore' = LimiterHit(limiterStore, ip)
    /\ requests' = MapSet(requests, ip,
                          IF LimiterPasses(limiterStore, ip)
                          THEN Served(ip, "convert")
                          ELSE Served(ip, "refused"))
    /\ UNCHANGED <<now, clockSteps, jobVars, rateLimitStore, presetVars,
                   lookupVars, permVars, payVars>>

\* POST /api/download, POST /api/download/batch: the limiter of server.js,
\* then validateRateLimit, then the handler
DownloadRequest(ip) ==
    /\ alive
    /\ RequestsMade(ip) < MaxRequests
    /\ limiterStore' = LimiterHit(limiterStore, ip)
    /\ IF LimiterPasses(limiterStore, ip)
       THEN /\ rateLimitStore' = validateRateLimit(rateLimitStore, ip)
            /\ requests' = MapSet(requests, ip,
                                  IF RateLimitPasses(rateLimitStore, ip)
                                  THEN Served(ip, "download")
                                  ELSE Served(ip, "refused"))
       ELSE /\ requests' = MapSet(requests, ip, Served(ip, "refused"))
            /\ UNCHANGED rateLimitStore
    /\ UNCHANGED <<now, clockSteps, jobVars, presetVars, lookupVars, permVars,
                   payVars>>

RateClock(d) ==
    /\ alive
    /\ clockSteps < MaxClockSteps
    /\ now' = now + d
    /\ clockSteps' = clockSteps + 1
    /\ UNCHANGED <<jobVars, rateVars, presetVars, lookupVars, permVars, payVars>>

RateNext ==
    \/ \E ip \in ClientIPs : ConvertRequest(ip)
    \/ \E ip \in ClientIPs : DownloadRequest(ip)
    \/ \E d \in RateDelays : RateClock(d)

RateSpec == Init /\ [][RateNext]_vars

\* ---------------------------------------------------- download admission
\* POST /api/download from several clients, with the job the handler
\* creates for a request that validateRateLimit lets through.  AdmitSpec
\* shares one budget of requests between the clients.
MaxPosts == 13

AdmitIPs == ClientIPs \cup {"198.51.100.9"}

RECURSIVE RequestsOf(_)
RequestsOf(ips) ==
    IF ips = {} THEN 0
    ELSE LET ip == CHOOSE i \in ips : TRUE
         IN  RequestsMade(ip) + RequestsOf(ips \ {ip})

\* router.post('/', validateRateLimit, validateDownloadRequest, handler)
\* behind the limiter of server.js, with a body that passes validation:
\* a refusal (429) ends the chain before the handler; otherwise the handler
\* sets 'starting', runs downloadVideo to its await and answers 200.
PostDownloadFrom(ip, url, format, quality) ==
    /\ alive
    /\ RequestsOf(AdmitIPs) < MaxPosts
    /\ limiterStore' = LimiterHit(limiterStore, ip)
    /\ IF LimiterPasses(limiterStore, ip)
       THEN rateLimitStore' = validateRateLimit(rateLimitStore, ip)
       ELSE UNCHANGED rateLimitStore
    /\ IF LimiterPasses(limiterStore, ip) /\ RateLimitPasses(rateLimitStore, ip)
       THEN /\ requests' = MapSet(requests, ip, Served(ip, "download"))
            /\ downloadJobs' =
                   DownloadVideoStart(
                       MapSet(downloadJobs, nextId,
                              StartingJob(url, format, quality)),
                       nextId)
            /\ fetch' = MapSet(fetch, nextId, "running")
            /\ progressTimer' = progressTimer \cup {nextId}
            /\ response' = MapSet(response, nextId, "ok")
            /\ nextId' = nextId + 1
       ELSE /\ requests' = MapSet(requests, ip, Served(ip, "refused"))
            /\ UNCHANGED <<downloadJobs, fetch, progressTimer, response, nextId>>
    /\ UNCHANGED <<now, clockSteps, alive, jobs, progressTracking, disk,
                   command, presetVars, lookupVars, permVars, payVars>>

AdmitNext ==
    \/ \E ip \in AdmitIPs, url \in Urls, format \in Formats,
          quality \in Qualities : PostDownloadFrom(ip, url, format, quality)
    \/ \E d \in RateDelays : RateClock(d)

AdmitSpec == Init /\ [][AdmitNext]_vars

\* ------------------------------------------------------ quality presets
\* What POST /api/convert/video asks of the transcoder.  PresetSpec draws
\* the body of a client's requests from the bodies validateConversionRequest
\* lets through and runs the handler up to command.run().
VideoFormats == {"mp4", "avi", "mov", "wmv", "flv", "webm", "mkv"}
QualityPresets == {"480p", "720p", "1080p", "1440p", "2160p"}
VideoCodecs == {"libx264", "libx265", "libvpx", "libvpx-vp9"}

\* conversionSchema: every field is optional
BodyValues(key) ==
    CASE key = "format" -> VideoFormats
      [] key = "quality" -> QualityPresets
      [] key = "codec" -> VideoCodecs

Bodies ==
    UNION {{b \in [keys -> VideoFormats \cup QualityPresets \cup VideoCodecs] :
                \A key \in keys : b[key] \in BodyValues(key)} :
           keys \in SUBSET {"format", "quality", "codec"}}

\* value || fallback
OrDefault(object, key, fallback) ==
    IF key \in DOMAIN object THEN object[key] ELSE fallback

\* the argument POST /video passes to ffmpegService.convertVideo
ConvertVideoArgs(reqBody) ==
    [format |-> OrDefault(reqBody, "format", "mp4"),
     quality |-> OrDefault(reqBody, "quality", "720p"),
     codec |-> OrDefault(reqBody, "codec", "libx264")]

\* convertVideo: switch (quality)
QualityOptions(quality) ==
    CASE quality = "480p" -> [size |-> "854x480", videoBitrate |-> "1000k"]
      [] quality = "720p" -> [size |-> "1280x720", videoBitrate |-> "2500k"]
      [] quality = "1080p" -> [size |-> "1920x1080", videoBitrate |-> "5000k"]
      [] quality = "1440p" -> [size |-> "2560x1440", videoBitrate |-> "8000k"]
      [] quality = "2160p" -> [size |-> "3840x2160", videoBitrate |-> "15000k"]
      [] OTHER -> EmptyMap

\* convertVideo: the command it builds from its argument
FfmpegCommand(args) ==
    Spread([videoCodec |-> OrDefault(args, "codec", "libx264"),
            format |-> args.format],
           IF "quality" \in DOMAIN args
           THEN QualityOptions(args.quality) ELSE EmptyMap)

\* POST /api/convert/video up to command.run()
ConvertVideoRequest ==
    /\ StartConversionWrites("video_conversion", FALSE)
    /\ invocation' = MapSet(invocation, nextId, FfmpegCommand(ConvertVideoArgs(body)))
    /\ UNCHANGED body

PresetInit ==
    /\ Started
    /\ body \in Bodies
    /\ listing = << >>
    /\ permRequest = EmptyMap

PresetNext == ConvertVideoRequest

PresetSpec == PresetInit /\ [][PresetNext]_vars

\* --------------------------------------------------- artifact lookup
\* What downloadVideo makes of the download directory once the fetch has
\* resolved.  LookupSpec draws the directory listing, in the order readdir
\* returns it, and applies the lookup; in Spec, where the disk is a set,
\* the same lookup is the choice of any matching file (FetchResolves).
MaxListing == 3
MaxMtime == 2

\* an entry of downloads/: its name holds a job id and an extension
DirEntries ==
    [job : 1..MaxJobs, ext : DownloadExts, mtime : 1..MaxMtime, isFile : BOOLEAN]

SameName(a, b) == a.job = b.job /\ a.ext = b.ext

Listings ==
    {l \in UNION {[1..n -> DirEntries] : n \in 0..MaxListing} :
        \A i, j \in DOMAIN l : i # j => ~SameName(l[i], l[j])}

\* allFiles.filter(file => stats.isFile() && file.includes(jobId))
FilterDownloaded(allFiles, id) ==
    SelectSeq(allFiles, LAMBDA file : file.isFile /\ file.job = id)

\* 'Downloaded file not found', or downloadedFiles[0]
LookupResult(allFiles, id) ==
    IF Len(FilterDownloaded(allFiles, id)) = 0
    THEN [job |-> id, found |-> FALSE]
    ELSE [job |-> id, found |-> TRUE,
          outputFile |-> FilterDownloaded(allFiles, id)[1]]

LookupDownloaded(id) ==
    /\ picked' = LookupResult(listing, id)
    /\ UNCHANGED <<now, clockSteps, jobVars, rateVars, presetVars, listing,
                   permVars, payVars>>

LookupInit ==
    /\ Started
    /\ body = EmptyMap
    /\ listing \in Listings
    /\ permRequest = EmptyMap

LookupNext == \E id \in 1..MaxJobs : LookupDownloaded(id)

LookupSpec == LookupInit /\ [][LookupNext]_vars

\* -------------------------------------------------- quality permission
\* checkQualityPermission of middleware/auth.js.  PermSpec draws a request
\* as the middleware finds it: req.user set or not by authenticateToken,
\* req.licenseInfo set or not by verifyLicense, and a quality in the body,
\* in the query, in both or in neither.
LicenseTypeNames == {"FREE", "BASIC", "PRO", "UNLIMITED"}

\* LICENSE_TYPES[type].max_quality
LICENSE_TYPES(type) ==
    CASE type = "FREE" -> [max_quality |-> "720p"]
      [] type = "BASIC" -> [max_quality |-> "1080p"]
      [] type = "PRO" -> [max_quality |-> "original"]
      [] type = "UNLIMITED" -> [max_quality |-> "original"]

\* the qualities conversionSchema and downloadSchema let through
RequestQualities == QualityPresets \cup {"best"}

\* a body or a query, with or without a quality
QualityParams ==
    {EmptyMap} \cup {[quality |-> q] : q \in RequestQualities}

\* req.licenseInfo is LICENSE_TYPES[license.licenseType] once verifyLicense
\* has run; a User object carries no licenseInfo property
PermRequests ==
    [user : BOOLEAN,
     body : QualityParams,
     query : QualityParams,
     licenseInfo : {EmptyMap} \cup {LICENSE_TYPES(t) : t \in LicenseTypeNames}]

\* req.body.quality || req.query.quality || '720p'
RequestedQuality(req) ==
    OrDefault(req.body, "quality", OrDefault(req.query, "quality", "720p"))

qualityLevels ==
    [q \in {"360p", "480p", "720p", "1080p", "original"} |->
        CASE q = "360p" -> 1
          [] q = "480p" -> 2
          [] q = "720p" -> 3
          [] q = "1080p" -> 4
          [] q = "original" -> 5]

\* qualityLevels[quality] || 3
defaultLevel == 3

LevelOf(quality) ==
    IF quality \in DOMAIN qualityLevels THEN qualityLevels[quality]
    ELSE defaultLevel

\* checkQualityPermission: "next" when it calls next(), otherwise the
\* status it answers.  Reading max_quality of an undefined licenseInfo
\* throws into the catch.
checkQualityPermission(req) ==
    IF ~req.user THEN "401"
    ELSE IF req.licenseInfo = EmptyMap THEN "500"
    ELSE IF LevelOf(RequestedQuality(req)) > LevelOf(req.licenseInfo.max_quality)
         THEN "403"
         ELSE "next"

CheckQuality ==
    /\ permOutcome = "none"
    /\ permOutcome' = checkQualityPermission(permRequest)
    /\ UNCHANGED <<now, clockSteps, jobVars, rateVars, presetVars, lookupVars,
                   permRequest, payVars>>

PermInit ==
    /\ Started
    /\ body = EmptyMap
    /\ listing = << >>
    /\ permRequest \in PermRequests

PermNext == CheckQuality

PermSpec == PermInit /\ [][PermNext]_vars

\* -------------------------------------------------- payment confirmation
\* POST /stripe/confirm-payment of routes/payments.js for one authenticated
\* user.  The handler awaits Stripe, License.create, user.updateLicense and
\* the write of the payment record in turn; each action below is the code
\* between two awaits, and several requests may be between awaits at once.
MaxConfirms == 3

\* req.user.id
UserId == "u1"

\* what stripe.paymentIntents.retrieve answers
PaymentIntents ==
    [pi \in {"pi_1", "pi_2", "pi_pending", "pi_other"} |->
        CASE pi = "pi_1" ->
                 [status |-> "succeeded", userId |-> UserId, licenseType |-> "BASIC"]
          [] pi = "pi_2" ->
                 [status |-> "succeeded", userId |-> UserId, licenseType |-> "PRO"]
          [] pi = "pi_pending" ->
                 [status |-> "processing", userId |-> UserId, licenseType |-> "PRO"]
          [] pi = "pi_other" ->
                 [status |-> "succeeded", userId |-> "u2", licenseType |-> "PRO"]]

\* req.body.paymentIntentId; "" when the body has none
ConfirmBodies == DOMAIN PaymentIntents \cup {""}

\* License.generateLicenseKey, User.generateLicenseKey: random bytes and
\* the time, a new key at every call
generateLicenseKey(site, r) == <<site, r>>

\* a request answered before the handler's first await, or waiting for Stripe
ConfirmPayment(paymentIntentId) ==
    LET r == Cardinality(DOMAIN confirm) + 1
    IN  /\ r <= MaxConfirms
        /\ confirm' = MapSet(confirm, r,
               [paymentIntentId |-> paymentIntentId,
                licenseId |-> 0,
                pc |-> IF paymentIntentId = "" THEN "400" ELSE "retrieve"])
        /\ UNCHANGED <<now, clockSteps, jobVars, rateVars, presetVars,
                       lookupVars, permVars, licenses, payments, userDoc>>

\* License.create: the document it adds
NewLicense(r, paymentIntentId) ==
    [userId |-> UserId,
     licenseKey |-> generateLicenseKey("License", r),
     licenseType |-> PaymentIntents[paymentIntentId].licenseType,
     status |-> "active",
     paymentId |-> paymentIntentId]

\* Stripe has answered: the two checks, then License.create up to its await
OnRetrieved(r) ==
    /\ r \in DOMAIN confirm /\ confirm[r].pc = "retrieve"
    /\ LET paymentIntent == PaymentIntents[confirm[r].paymentIntentId]
       IN  IF paymentIntent.status # "succeeded"
           THEN /\ confirm' = MapSet(confirm, r, [confirm[r] EXCEPT !.pc = "400"])
                /\ UNCHANGED licenses
           ELSE IF paymentIntent.userId # UserId
           THEN /\ confirm' = MapSet(confirm, r, [confirm[r] EXCEPT !.pc = "403"])
                /\ UNCHANGED licenses
           ELSE /\ licenses' = Append(licenses,
                                      NewLicense(r, confirm[r].paymentIntentId))
                /\ confirm' = MapSet(confirm, r,
                       [confirm[r] EXCEPT !.pc = "updateLicense",
                                          !.licenseId = Len(licenses) + 1])
    /\ UNCHANGED <<now, clockSteps, jobVars, rateVars, presetVars, lookupVars,
                   permVars, payments, userDoc>>

\* stripe.paymentIntents.retrieve rejects: the catch answers 500
OnRetrieveFailed(r) ==
    /\ r \in DOMAIN confirm /\ confirm[r].pc = "retrieve"
    /\ confirm' = MapSet(confirm, r, [confirm[r] EXCEPT !.pc = "500"])
    /\ UNCHANGED <<now, clockSteps, jobVars, rateVars, presetVars, lookupVars,
                   permVars, licenses, payments, userDoc>>

\* User.updateLicense: the fields it writes to the user's document
updateLicense(doc, r, licenseType) ==
    Spread(doc, [licenseType |-> licenseType,
                 licenseKey |-> generateLicenseKey("User", r)])

\* the license is stored: req.user.updateLicense up to its await
OnLicenseCreated(r) ==
    /\ r \in DOMAIN confirm /\ confirm[r].pc = "updateLicense"
    /\ userDoc' = updateLicense(userDoc, r,
                      PaymentIntents[confirm[r].paymentIntentId].licenseType)
    /\ confirm' = MapSet(confirm, r, [confirm[r] EXCEPT !.pc = "payment"])
    /\ UNCHANGED <<now, clockSteps, jobVars, rateVars, presetVars, lookupVars,
                   permVars, licenses, payments>>

\* the user is updated: the payment record is added
OnUserUpdated(r) ==
    /\ r \in DOMAIN confirm /\ confirm[r].pc = "payment"
    /\ payments' = Append(payments,
                          [userId |-> UserId,
                           licenseId |-> confirm[r].licenseId,
                           paymentId |-> confirm[r].paymentIntentId,
                           status |-> "completed"])
    /\ confirm' = MapSet(confirm, r, [confirm[r] EXCEPT !.pc = "respond"])
    /\ UNCHANGED <<now, clockSteps, jobVars, rateVars, presetVars, lookupVars,
                   permVars, licenses, userDoc>>

\* the payment record is stored: res.json({ success: true, ... })
OnPaymentStored(r) ==
    /\ r \in DOMAIN confirm /\ confirm[r].pc = "respond"
    /\ confirm' = MapSet(confirm, r, [confirm[r] EXCEPT !.pc = "200"])
    /\ UNCHANGED <<now, clockSteps, jobVars, rateVars, presetVars, lookupVars,
                   permVars, licenses, payments, userDoc>>

PaymentNext ==
    \/ \E paymentIntentId \in ConfirmBodies : ConfirmPayment(paymentIntentId)
    \/ \E r \in 1..MaxConfirms : OnRetrieved(r)
    \/ \E r \in 1..MaxConfirms : OnRetrieveFailed(r)
    \/ \E r \in 1..MaxConfirms : OnLicenseCreated(r)
    \/ \E r \in 1..MaxConfirms : OnUserUpdated(r)
    \/ \E r \in 1..MaxConfirms : OnPaymentStored(r)

PaymentSpec == Init /\ [][PaymentNext]_vars

\* ============================================================== claims
Terminal == {"completed", "failed"}

NonTerminal == {"starting", "downloading", "processing"}

\* ids handed out so far
Allocated == 1..(nextId - 1)

\* the percent a poll of a job in its registry shows
ConvPercent(id) == ConvProgressRoute(id).progress.progress.percent

DownloadPercent(id) == DownloadProgressRoute(id).progress

\* the retention criterion as the specification words it
OlderThanMaxAge(job) ==
    /\ job.status \in Terminal
    /\ "endTime" \in DOMAIN job
    /\ now - job.endTime > maxAge

FilesOf(d, id) == {f \in d : f.job = id}

CleanupStep == \E failing \in Failings : Cleanup(failing)

DownloadSweepStep == \E failing \in Failings : DownloadSweep(failing)

\* ------------------------------------------------------------------ C1
ConvForward(s, t) == s = t \/ (s = "processing" /\ t \in Terminal)

DownloadForward(s, t) ==
    \/ s = t
    \/ s = "starting" /\ t = "downloading"
    \/ s = "downloading" /\ t \in Terminal

\* C1: in every step, the status of a job that stays in its registry moves
\* only forward (processing -> completed|failed; starting -> downloading ->
\* completed|failed), a terminal status never changes, a new entry starts
\* non-terminal, only terminal entries are removed, and a removed id never
\* comes back.
C1_StatusForward ==
    [][\A id \in 1..MaxJobs :
          /\ (id \in DOMAIN jobs /\ id \in DOMAIN jobs')
                 => ConvForward(jobs[id].status, jobs'[id].status)
          /\ (id \in DOMAIN downloadJobs /\ id \in DOMAIN downloadJobs')
                 => DownloadForward(downloadJobs[id].status, downloadJobs'[id].status)
          /\ (id \notin DOMAIN jobs /\ id \in DOMAIN jobs')
                 => (id \notin Allocated /\ jobs'[id].status = "processing")
          /\ (id \notin DOMAIN downloadJobs /\ id \in DOMAIN downloadJobs')
                 => (id \notin Allocated
                     /\ downloadJobs'[id].status \in {"starting", "downloading"})
          /\ (id \in DOMAIN jobs /\ id \notin DOMAIN jobs')
                 => jobs[id].status \in Terminal
          /\ (id \in DOMAIN downloadJobs /\ id \notin DOMAIN downloadJobs')
                 => downloadJobs[id].status \in Terminal
      ]_vars

\* C1 witness: a failed download whose progress timer is still scheduled has
\* been ticked at a later time, beside a conversion job that ended.
C1_Witness ==
    \E i \in DOMAIN jobs, j \in DOMAIN downloadJobs :
        /\ jobs[i].status \in Terminal
        /\ downloadJobs[j].status = "failed"
        /\ j \in progressTimer
        /\ now > downloadJobs[j].endTime

\* ------------------------------------------------------------------ C2
ResponseOk(id) == id \in DOMAIN response /\ response[id] = "ok"

JobNonTerminal(id) ==
    \/ id \in DOMAIN jobs /\ jobs[id].status \in NonTerminal
    \/ id \in DOMAIN downloadJobs /\ downloadJobs[id].status \in NonTerminal

\* C2: in the step that produces the creation response carrying a job id,
\* that job is in its registry with a non-terminal status.
C2_ResponseWhileRunning ==
    [][\A id \in 1..MaxJobs :
          (~ResponseOk(id) /\ ResponseOk(id)') => JobNonTerminal(id)'
      ]_vars

\* ------------------------------------------------------------------ C3
\* C3: a job record carries outputFile if and only if its status is completed.
C3_OutputIffCompleted ==
    /\ \A id \in DOMAIN jobs :
           ("outputFile" \in DOMAIN jobs[id]) <=> (jobs[id].status = "completed")
    /\ \A id \in DOMAIN downloadJobs :
           ("outputFile" \in DOMAIN downloadJobs[id])
               <=> (downloadJobs[id].status = "completed")

\* ------------------------------------------------------------------ C4
ErrorIffFailed(job) ==
    /\ ("error" \in DOMAIN job) <=> (job.status = "failed")
    /\ ("error" \in DOMAIN job) => job.error # ""

\* C4: a job record carries an error message, and a non-empty one, if and
\* only if its status is failed.
C4_ErrorIffFailed ==
    /\ \A id \in DOMAIN jobs : ErrorIffFailed(jobs[id])
    /\ \A id \in DOMAIN downloadJobs : ErrorIffFailed(downloadJobs[id])

\* C4 witness: a conversion failed by a tool error, a download failed by the
\* artifact lookup.
C4_Witness ==
    \E i \in DOMAIN jobs, j \in DOMAIN downloadJobs :
        /\ jobs[i].status = "failed"
        /\ jobs[i].error \in ToolMessages
        /\ downloadJobs[j].status = "failed"
        /\ downloadJobs[j].error = "Downloaded file not found"

\* ------------------------------------------------------------------ C5
\* C5: no step lowers the percent of a job that stays in its registry.
C5_PercentNonDecreasing ==
    [][\A id \in 1..MaxJobs :
          /\ (id \in DOMAIN jobs /\ id \in DOMAIN jobs')
                 => ConvPercent(id)' >= ConvPercent(id)
          /\ (id \in DOMAIN downloadJobs /\ id \in DOMAIN downloadJobs')
                 => DownloadPercent(id)' >= DownloadPercent(id)
      ]_vars

\* ------------------------------------------------------------------ C6
\* C6: in every state a job's percent is 100 if and only if its status is
\* completed.
C6_HundredIffCompleted ==
    /\ \A id \in DOMAIN jobs :
           (ConvPercent(id) = 100) <=> (jobs[id].status = "completed")
    /\ \A id \in DOMAIN downloadJobs :
           (DownloadPercent(id) = 100) <=> (downloadJobs[id].status = "completed")

\* ------------------------------------------------------------------ C7
\* C7: whenever the runner of a job has stopped (its command ended, errored
\* or could not be built; its fetch resolved or rejected), the job's status
\* is completed or failed.
C7_StoppedRunnerIsTerminal ==
    /\ \A id \in DOMAIN jobs :
           command[id] # "running" => jobs[id].status \in Terminal
    /\ \A id \in DOMAIN downloadJobs :
           fetch[id] # "running" => downloadJobs[id].status \in Terminal

\* ------------------------------------------------------------------ C8
\* C8: a sweep that runs to its end removes every job that was terminal and
\* older than maxAge when it started: the conversion sweep from jobs and
\* progressTracking, the download sweep from downloadJobs, and the recorded
\* output file from the disk.
C8_SweepRemovesExpired ==
    [][/\ (CleanupStep /\ alive')
           => \A id \in DOMAIN jobs :
                  OlderThanMaxAge(jobs[id])
                      => /\ id \notin DOMAIN jobs'
                         /\ id \notin DOMAIN progressTracking'
                         /\ jobs[id].outputFile \notin disk'
       /\ (DownloadSweepStep /\ alive')
           => \A id \in DOMAIN downloadJobs :
                  OlderThanMaxAge(downloadJobs[id])
                      => /\ id \notin DOMAIN downloadJobs'
                         /\ ("outputFile" \in DOMAIN downloadJobs[id]
                                => downloadJobs[id].outputFile \notin disk')
      ]_vars

\* C8 witness: one sweep has removed two conversion jobs, their snapshots,
\* their uploads and whatever output they had written.
C8_Witness ==
    /\ alive
    /\ nextId > 2
    /\ \A id \in 1..2 : id \in DOMAIN command /\ id \notin DOMAIN jobs
    /\ \A id \in 1..2 : id \notin DOMAIN progressTracking
    /\ disk = {}

\* ------------------------------------------------------------------ C9
Untouched(id) ==
    /\ (id \in DOMAIN jobs) => (id \in DOMAIN jobs' /\ jobs'[id] = jobs[id])
    /\ (id \in DOMAIN progressTracking)
           => (id \in DOMAIN progressTracking'
               /\ progressTracking'[id] = progressTracking[id])
    /\ (id \in DOMAIN downloadJobs)
           => (id \in DOMAIN downloadJobs' /\ downloadJobs'[id] = downloadJobs[id])
    /\ FilesOf(disk', id) = FilesOf(disk, id)

Retained(id) ==
    /\ (id \in DOMAIN jobs) => ~OlderThanMaxAge(jobs[id])
    /\ (id \in DOMAIN downloadJobs) => ~OlderThanMaxAge(downloadJobs[id])

\* C9: a sweep, finished or aborted, leaves the entry, the snapshot and the
\* files of every job that is non-terminal or not older than maxAge as they
\* were.
C9_SweepKeepsTheRest ==
    [][(CleanupStep \/ DownloadSweepStep)
          => \A id \in Allocated : Retained(id) => Untouched(id)
      ]_vars

\* C9 witness: one conversion job has been swept while another, ended and
\* exactly maxAge old, is still there with its snapshot and its files.
C9_Witness ==
    \E i \in DOMAIN command, j \in DOMAIN jobs :
        /\ i \notin DOMAIN jobs
        /\ jobs[j].status \in Terminal
        /\ now - jobs[j].endTime = maxAge
        /\ j \in DOMAIN progressTracking
        /\ OutputFile(j) \in disk

\* ----------------------------------------------------------------- C10
\* C10: every file in output/ or downloads/ whose name contains a job id
\* belongs to a job that is still in its registry.
C10_NoOrphanFiles ==
    \A f \in disk :
        /\ f.dir = "output" => f.job \in DOMAIN jobs
        /\ f.dir = "downloads" => f.job \in DOMAIN downloadJobs

\* ----------------------------------------------------------------- C11
\* C11: whenever an output-retrieval route serves a file for an id (GET
\* /download/:jobId for conversions, GET /file/:jobId for downloads), that
\* id is in the registry with status completed; for every other id the
\* answer is not-found.
C11_ServedOnlyWhenCompleted ==
    \A id \in 1..MaxJobs :
        /\ ConvDownloadRoute(id).code = 200
               => (id \in DOMAIN jobs /\ jobs[id].status = "completed")
        /\ DownloadFileRoute(id).code = 200
               => (id \in DOMAIN downloadJobs
                   /\ downloadJobs[id].status = "completed")

\* ----------------------------------------------------------------- C12
BecomesCompleted(reg, id) ==
    /\ id \in DOMAIN reg /\ reg[id].status # "completed"
    /\ id \in DOMAIN reg' /\ reg'[id].status = "completed"

\* C12: in the step in which a job becomes completed, its record carries an
\* output path and the file of that path is on disk.
C12_CompletedHasFile ==
    [][\A id \in 1..MaxJobs :
          /\ BecomesCompleted(jobs, id)
                 => /\ "outputFile" \in DOMAIN jobs'[id]
                    /\ jobs'[id].outputFile \in disk'
          /\ BecomesCompleted(downloadJobs, id)
                 => /\ "outputFile" \in DOMAIN downloadJobs'[id]
                    /\ downloadJobs'[id].outputFile \in disk'
      ]_vars

\* ----------------------------------------------------------------- C13
\* ids a client may ask about: those handed out and one never handed out
QueryIds == 1..(MaxJobs + 1)

\* C13: in every state, for every id that is not in a registry (never
\* created, or swept), the progress and output queries of that registry
\* evaluate to not-found (null, 404); the handlers are steps that leave
\* every variable unchanged.
C13_UnknownIdNotFound ==
    \A id \in QueryIds :
        /\ id \notin DOMAIN jobs
               => /\ getProgress(id) = NotFound
                  /\ getOutputFile(id) = NotFound
                  /\ ConvProgressRoute(id).code = 404
                  /\ ConvDownloadRoute(id).code = 404
        /\ id \notin DOMAIN downloadJobs
               => /\ DownloadProgressRoute(id).code = 404
                  /\ DownloadFileRoute(id).code = 404

\* C13 witness: a conversion job and a download job have both been swept,
\* the download's partial file is still on disk, and a further id has never
\* been handed out.
C13_Witness ==
    \E i \in DOMAIN command, j \in DOMAIN fetch :
        /\ i \notin DOMAIN jobs
        /\ j \notin DOMAIN downloadJobs
        /\ FilesOf(disk, j) # {}
        /\ nextId \in QueryIds

\* ----------------------------------------------------------------- C14
\* C14: a status query writes nothing (PollConversion and PollDownload
\* leave every variable unchanged), and over any step that changes the
\* state (the clock, the disk, the other registry) without a runner, timer
\* or sweeper write to a registry, the answer of that registry's status
\* query stays identical for every id.
C14_StatusIdempotent ==
    [][/\ (vars' # vars /\ jobs' = jobs /\ progressTracking' = progressTracking)
           => \A id \in QueryIds :
                  ConvProgressRoute(id)' = ConvProgressRoute(id)
       /\ (vars' # vars /\ downloadJobs' = downloadJobs)
           => \A id \in QueryIds :
                  DownloadProgressRoute(id)' = DownloadProgressRoute(id)
      ]_vars

\* C14 witness: time has passed since a download job and a conversion job
\* were created and neither the timer nor the transcoder has written since:
\* repeated queries answer the values written at creation.
C14_Witness ==
    \E i \in DOMAIN jobs, j \in DOMAIN downloadJobs :
        /\ jobs[i].status = "processing"
        /\ now > jobs[i].startTime
        /\ ConvProgressRoute(i).progress.progress.percent = 0
        /\ downloadJobs[j].status = "downloading"
        /\ now > downloadJobs[j].startTime
        /\ DownloadProgressRoute(j).progress = 0
        /\ EstimatedProgress(now - downloadJobs[j].startTime) > 0

\* ----------------------------------------------------------------- C15
PostBatchStep(n) == \E f \in Formats, q \in Qualities : PostBatch(n, f, q)

\* the elements of a sequence
Range(seq) == {seq[i] : i \in DOMAIN seq}

\* C15: a batch request with n URLs, 1 <= n <= 10, answers n pairwise
\* distinct job ids and one batchId; the registry gains exactly those n
\* ids, each entry carrying that batchId, and every entry that was there
\* before is left as it was.
C15_BatchCreatesDistinctJobs ==
    [][\A n \in 1..maxBatchUrls :
          PostBatchStep(n)
              => /\ BatchResponse(n).code = 200
                 /\ Len(BatchResponse(n).jobIds) = n
                 /\ Cardinality(Range(BatchResponse(n).jobIds)) = n
                 /\ DOMAIN downloadJobs' \ DOMAIN downloadJobs
                        = Range(BatchResponse(n).jobIds)
                 /\ Range(BatchResponse(n).jobIds) \cap Allocated = {}
                 /\ \A id \in Range(BatchResponse(n).jobIds) :
                        downloadJobs'[id].batchId = BatchResponse(n).batchId
                 /\ \A id \in DOMAIN downloadJobs :
                        /\ id \in DOMAIN downloadJobs'
                        /\ downloadJobs'[id] = downloadJobs[id]
      ]_vars

\* C15 witness: both members of a batch of two are in the registry with the
\* same batchId, one failed and one completed.
C15_Witness ==
    \E i \in DOMAIN downloadJobs, j \in DOMAIN downloadJobs :
        /\ i # j
        /\ "batchId" \in DOMAIN downloadJobs[i]
        /\ "batchId" \in DOMAIN downloadJobs[j]
        /\ downloadJobs[i].batchId = downloadJobs[j].batchId
        /\ downloadJobs[i].status = "failed"
        /\ downloadJobs[j].status = "completed"

\* ----------------------------------------------------------------- C16
\* a runner step, tool event, timer tick or failure handling of job j
JobStep(j) ==
    \/ TranscoderWrites(j)
    \/ \E report \in ProgressReports : ConvProgress(j, report)
    \/ ConvEnd(j)
    \/ \E message \in ToolMessages : ConvError(j, message)
    \/ \E ext \in DownloadExts : FetcherWrites(j, ext)
    \/ ProgressTimerTick(j)
    \/ FetchResolves(j)
    \/ \E message \in FetchMessages : FetchRejects(j, message)

\* the runner of job k is where it was
RunnerUntouched(k) ==
    /\ (k \in DOMAIN command) => (k \in DOMAIN command' /\ command'[k] = command[k])
    /\ (k \in DOMAIN fetch) => (k \in DOMAIN fetch' /\ fetch'[k] = fetch[k])
    /\ (k \in progressTimer) <=> (k \in progressTimer')

\* C16: a step of job j (runner step, tool event, timer tick, failure
\* handling) leaves the record, the snapshot, the files and the runner of
\* every other job as they were, batch siblings included, so a sibling of a
\* failed batch member still runs to its own terminal state.
C16_JobsIndependent ==
    [][\A j \in 1..MaxJobs :
          JobStep(j)
              => \A k \in Allocated \ {j} : Untouched(k) /\ RunnerUntouched(k)
      ]_vars

\* C16 witness: in a batch of two, one member failed and its sibling
\* completed at a later time.
C16_Witness ==
    \E i \in DOMAIN downloadJobs, j \in DOMAIN downloadJobs :
        /\ i # j
        /\ "batchId" \in DOMAIN downloadJobs[i]
        /\ "batchId" \in DOMAIN downloadJobs[j]
        /\ downloadJobs[i].batchId = downloadJobs[j].batchId
        /\ downloadJobs[i].status = "failed"
        /\ downloadJobs[j].status = "completed"
        /\ downloadJobs[j].endTime > downloadJobs[i].endTime

\* ----------------------------------------------------------------- C17
\* the properties every creation writes; an entry re-created by a late
\* { ...undefined, status } write would lack them
CreatedConv(job) == {"inputFile", "outputFile", "startTime", "type"} \subseteq DOMAIN job

CreatedDownload(job) == {"url", "format", "quality", "startTime"} \subseteq DOMAIN job

\* C17: in every state each progress snapshot belongs to an id that has a
\* job entry, and every entry of either registry is one a creation request
\* wrote: no event or tick after a sweep has brought back a snapshot or an
\* entry for a deleted id.
C17_RegistryTrackerAgree ==
    /\ DOMAIN progressTracking \subseteq DOMAIN jobs
    /\ \A id \in DOMAIN jobs : CreatedConv(jobs[id])
    /\ \A id \in DOMAIN downloadJobs : CreatedDownload(downloadJobs[id])
    /\ (DOMAIN jobs \cup DOMAIN downloadJobs) \subseteq Allocated
    /\ DOMAIN jobs \cap DOMAIN downloadJobs = {}

\* C17 witness: a conversion whose command errored and a failed download
\* whose timer is still scheduled have both been swept.
C17_Witness ==
    \E i \in DOMAIN command, j \in progressTimer :
        /\ command[i] = "errored"
        /\ i \notin DOMAIN jobs
        /\ i \notin DOMAIN progressTracking
        /\ j \notin DOMAIN downloadJobs

\* ----------------------------------------------------------------- C18
\* "10 conversion requests per 15 minutes per IP"
conversionLimit == 10

\* the requests of a sequence of serving times that fall in the window
\* opened by its i-th
InWindow(times, i) == {j \in i..Len(times) : times[j] - times[i] < windowMs}

\* C18: for every client, no window of 15 minutes holds more than 10
\* conversion requests that were served.
C18_ConversionRateLimited ==
    \A ip \in DOMAIN requests :
        \A i \in 1..Len(requests[ip].convert) :
            Cardinality(InWindow(requests[ip].convert, i)) <= conversionLimit

\* ----------------------------------------------------------------- C19
\* C19: for every conversion job created by a request, the transcoder was
\* given no size and no video bitrate when the request named no quality,
\* and exactly the pair of the preset when it named one.
C19_NoQualityNoResize ==
    \A id \in DOMAIN invocation :
        /\ "quality" \notin DOMAIN body
               => /\ "size" \notin DOMAIN invocation[id]
                  /\ "videoBitrate" \notin DOMAIN invocation[id]
        /\ "quality" \in DOMAIN body
               => /\ body.quality \in QualityPresets
                  /\ Defined(invocation[id], {"size", "videoBitrate"})
                         = QualityOptions(body.quality)

\* ----------------------------------------------------------------- C20
\* every entry a sweep step deletes has had its recorded files removed
DeletedAfterUnlink ==
    /\ \A id \in DOMAIN jobs :
           (id \notin DOMAIN jobs' \/ id \notin DOMAIN progressTracking')
               => /\ jobs[id].outputFile \notin disk'
                  /\ jobs[id].inputFile \notin disk'
    /\ \A id \in DOMAIN downloadJobs :
           (id \notin DOMAIN downloadJobs' /\ "outputFile" \in DOMAIN downloadJobs[id])
               => downloadJobs[id].outputFile \notin disk'

\* C20: a sweep deletes the registry and tracker entries of a job only
\* once its recorded output file and staged input file are off the disk,
\* and a sweep in which an unlink fails leaves the entries in the registry
\* of a process that is still running, so that a later sweep retries.
C20_SweepDeletesAfterUnlink ==
    [][(CleanupStep \/ DownloadSweepStep) => (DeletedAfterUnlink /\ alive')]_vars

\* ----------------------------------------------------------------- C21
\* C21: once the status of a job is completed or failed, no step changes
\* its progress value while it stays in its registry: no progress event of
\* the transcoder and no estimator tick writes after the terminal write.
C21_NoProgressAfterTerminal ==
    [][\A id \in 1..MaxJobs :
          /\ (id \in DOMAIN jobs /\ jobs[id].status \in Terminal
                  /\ id \in DOMAIN jobs')
                 => /\ id \in DOMAIN progressTracking'
                    /\ progressTracking'[id] = progressTracking[id]
          /\ (id \in DOMAIN downloadJobs /\ downloadJobs[id].status \in Terminal
                  /\ id \in DOMAIN downloadJobs')
                 => downloadJobs'[id].progress = downloadJobs[id].progress
      ]_vars

\* C21 witness: a failed download whose timer is still scheduled, at a time
\* when the estimator would write another value than the stored one, beside
\* a conversion that ended below 100 after a progress event.
C21_Witness ==
    \E i \in DOMAIN jobs, j \in DOMAIN downloadJobs :
        /\ jobs[i].status = "failed"
        /\ progressTracking[i].percent > 0
        /\ downloadJobs[j].status = "failed"
        /\ j \in progressTimer
        /\ now > downloadJobs[j].endTime
        /\ EstimatedProgress(now - downloadJobs[j].startTime)
               # downloadJobs[j].progress

\* ----------------------------------------------------------------- C22
\* min(90, 2 * floor(elapsed seconds)) as the specification words it
Min(a, b) == IF a <= b THEN a ELSE b

ClaimedEstimate(job) ==
    Min(estimatorCap, estimatorRate * ((now - job.startTime) \div msPerSecond))

\* C22: a tick of the progress timer of a job in status downloading sets
\* its progress to min(90, 2 * floor(elapsed seconds)), never above 90, and
\* changes no other field and no other entry; a tick for a job that is
\* absent or not downloading writes nothing.
C22_EstimatorTick ==
    [][\A id \in 1..MaxJobs :
          ProgressTimerTick(id)
              => IF id \in DOMAIN downloadJobs
                     /\ downloadJobs[id].status = "downloading"
                 THEN /\ downloadJobs' =
                             [downloadJobs EXCEPT
                                 ![id].progress = ClaimedEstimate(downloadJobs[id])]
                      /\ downloadJobs'[id].progress <= estimatorCap
                 ELSE downloadJobs' = downloadJobs
      ]_vars

\* C22 witness: two downloading jobs, one ticked at the cap after a long
\* wait and one ticked 2 after a second and a half.
C22_Witness ==
    \E i \in DOMAIN downloadJobs, j \in DOMAIN downloadJobs :
        /\ downloadJobs[i].status = "downloading"
        /\ downloadJobs[i].progress = estimatorCap
        /\ downloadJobs[j].status = "downloading"
        /\ downloadJobs[j].progress = estimatorRate

\* ----------------------------------------------------------------- C23
\* the files in downloads/ whose name contains the id
OwnDownloads(id) == {f \in FilesOf(disk, id) : f.dir = "downloads"}

\* C23: a download job whose fetch resolved while downloads/ holds no file
\* with its id in the name is failed with the error 'Downloaded file not
\* found' and carries no output file and no file size; it is never
\* completed.
C23_LookupFailureFails ==
    \A id \in DOMAIN downloadJobs :
        (fetch[id] = "resolved" /\ OwnDownloads(id) = {})
            => /\ downloadJobs[id].status = "failed"
               /\ downloadJobs[id].error = "Downloaded file not found"
               /\ downloadJobs[id].error # ""
               /\ "outputFile" \notin DOMAIN downloadJobs[id]
               /\ "fileSize" \notin DOMAIN downloadJobs[id]

\* C23 witness: the fetch of one job resolved without a file of its own
\* while the directory holds a file of another job.
C23_Witness ==
    \E i \in DOMAIN downloadJobs, j \in DOMAIN fetch :
        /\ i # j
        /\ fetch[i] = "resolved"
        /\ OwnDownloads(i) = {}
        /\ OwnDownloads(j) # {}
        /\ downloadJobs[i].status = "failed"

\* ----------------------------------------------------------------- C24
\* the regular files of a listing whose name contains the id
Matches(allFiles, id) ==
    {allFiles[i] : i \in {k \in DOMAIN allFiles :
                             allFiles[k].isFile /\ allFiles[k].job = id}}

\* C24: the file a lookup records as the output of a job has that job's id
\* in its name, and no other file with the id in its name was modified
\* later.
C24_NewestMatchRecorded ==
    ("found" \in DOMAIN picked /\ picked.found)
        => /\ picked.outputFile.job = picked.job
           /\ \A f \in Matches(listing, picked.job) :
                  f.mtime <= picked.outputFile.mtime

\* ----------------------------------------------------------------- C25
TimesAgree(job) ==
    /\ "startTime" \in DOMAIN job
    /\ ("endTime" \in DOMAIN job) <=> (job.status \in Terminal)

StartTimeKept(reg, id) ==
    (id \in DOMAIN reg /\ id \in DOMAIN reg')
        => reg'[id].startTime = reg[id].startTime

\* C25: in every state every job has a startTime, and an endTime if and
\* only if its status is completed or failed; no step changes the
\* startTime of a job that stays in its registry.
C25_EndTimeIffTerminal ==
    /\ [](/\ \A id \in DOMAIN jobs : TimesAgree(jobs[id])
          /\ \A id \in DOMAIN downloadJobs : TimesAgree(downloadJobs[id]))
    /\ [][\A id \in 1..MaxJobs :
              StartTimeKept(jobs, id) /\ StartTimeKept(downloadJobs, id)]_vars

\* C25 witness: a conversion completed and a download failed, both some
\* time after they started, beside nothing else.
C25_Witness ==
    \E i \in DOMAIN jobs, j \in DOMAIN downloadJobs :
        /\ jobs[i].status = "completed"
        /\ jobs[i].endTime > jobs[i].startTime
        /\ downloadJobs[j].status = "failed"
        /\ downloadJobs[j].endTime > downloadJobs[j].startTime

\* ----------------------------------------------------------------- C26
\* C26: in every state the stored percent of every job, a conversion's
\* snapshot or a download's progress, is an integer from 0 to 100.
C26_PercentInRange ==
    /\ \A id \in DOMAIN progressTracking :
           progressTracking[id].percent \in 0..100
    /\ \A id \in DOMAIN downloadJobs :
           downloadJobs[id].progress \in 0..100

\* ----------------------------------------------------------------- C27
\* C27: every progress timer that is scheduled belongs to a download job
\* that is in the registry and neither completed nor failed.
C27_NoTimerAfterTerminal ==
    \A id \in progressTimer :
        /\ id \in DOMAIN downloadJobs
        /\ downloadJobs[id].status \notin Terminal

\* ----------------------------------------------------------------- C28
\* the requests of a sequence of admission times that fall in the 15
\* minutes preceding the instant t
Preceding(times, t) ==
    {j \in 1..Len(times) : times[j] <= t /\ t - times[j] < windowMs}

\* the instants at which something happened, and the present
Instants ==
    {now} \cup UNION {Range(RequestLog(ip).download)
                          \cup Range(RequestLog(ip).refused) : ip \in AdmitIPs}

\* the last n elements of a sequence
Suffix(seq, n) == SubSeq(seq, Len(seq) - n + 1, Len(seq))

\* the admitted requests of all clients
Admitted ==
    {r \in AdmitIPs \X (1..MaxPosts) :
         r[2] <= Len(RequestLog(r[1]).download)}

\* C28: for every client IP and every instant, at most 10 requests of that
\* IP were admitted in the preceding 15 minutes; the store of an IP holds
\* one timestamp for each of its admitted requests that is younger than 15
\* minutes, and none for a refused one; every admitted request and no
\* refused one has created a job; and a request is refused only when its
\* own IP has 10 admitted requests in the preceding 15 minutes.
C28_AtMostTenPerWindow ==
    /\ \A ip \in AdmitIPs : \A t \in Instants :
           Cardinality(Preceding(RequestLog(ip).download, t)) <= maxRequests
    /\ \A ip \in DOMAIN rateLimitStore :
           LET admitted == RequestLog(ip).download
               stored == rateLimitStore[ip]
           IN  /\ Len(stored) <= Len(admitted)
               /\ stored = Suffix(admitted, Len(stored))
               /\ \A j \in 1..Len(admitted) :
                      now - admitted[j] < windowMs
                          => j > Len(admitted) - Len(stored)
    /\ Cardinality(DOMAIN downloadJobs) = Cardinality(Admitted)
    /\ \A ip \in AdmitIPs :
           \A i \in 1..Len(RequestLog(ip).refused) :
               Cardinality(Preceding(RequestLog(ip).download,
                                     RequestLog(ip).refused[i])) = maxRequests

\* one client has used its allowance and been refused, was admitted again
\* once its requests were 15 minutes old, and another client was admitted
\* after the refusal
C28_Witness ==
    \E a \in AdmitIPs, b \in AdmitIPs :
        /\ a # b
        /\ Len(RequestLog(a).refused) = 1
        /\ Len(RequestLog(a).download) = maxRequests + 1
        /\ RequestLog(a).download[maxRequests + 1]
               = RequestLog(a).download[1] + windowMs
        /\ Len(RequestLog(b).download) = 1
        /\ RequestLog(b).download[1] >= RequestLog(a).refused[1]
        /\ RequestLog(b).download[1] < RequestLog(a).download[1] + windowMs

\* ----------------------------------------------------------------- C29
\* the resolutions request validation accepts, in lines
Lines(quality) ==
    CASE quality = "480p" -> 480
      [] quality = "720p" -> 720
      [] quality = "1080p" -> 1080
      [] quality = "1440p" -> 1440
      [] quality = "2160p" -> 2160

\* the requested resolution is higher than the license allows
AboveMaxQuality(quality, max_quality) ==
    /\ max_quality # "original"
    /\ Lines(quality) > Lines(max_quality)

\* C29: checkQualityPermission has called next() only for a request whose
\* quality, one of 480p, 720p, 1080p, 1440p and 2160p, is not higher than
\* the max_quality of the license.
C29_NeverAboveMaxQuality ==
    (permOutcome = "next" /\ RequestedQuality(permRequest) \in QualityPresets)
        => ~AboveMaxQuality(RequestedQuality(permRequest),
                            permRequest.licenseInfo.max_quality)

\* ----------------------------------------------------------------- C30
\* the documents of a collection that name a payment intent
ForPayment(collection, paymentIntentId) ==
    {i \in DOMAIN collection : collection[i].paymentId = paymentIntentId}

\* C30: for every payment intent there is at most one license and at most
\* one payment record, however often and however concurrently it has been
\* confirmed.
C30_OneLicensePerPayment ==
    \A paymentIntentId \in DOMAIN PaymentIntents :
        /\ Cardinality(ForPayment(licenses, paymentIntentId)) <= 1
        /\ Cardinality(ForPayment(payments, paymentIntentId)) <= 1

====
